---- MODULE Spec2Model ----
(***************************************************************************)
(* Neat Pulse MCP server: the API client (NeatPulseClient) and the tool    *)
(* adapter (the server.tool handlers) of src/src/client.ts.                *)
(*                                                                         *)
(* Text is modelled as a sequence of atomic pieces (TLA+ strings), so that *)
(* whatever the code does to text (quoting, escaping, percent-encoding,    *)
(* concatenation, parsing) is computed on the pieces and not assumed.      *)
(* A JavaScript value is a tagged record.                                  *)
(***************************************************************************)
EXTENDS Integers, Sequences, FiniteSets, TLC

\* How many invocations the transport can hold at once (one slot each).
NumSlots == 2

Slots == 1..NumSlots

(***************************************************************************)
(* JavaScript values                                                       *)
(***************************************************************************)
Undef == [t |-> "undefined"]
Null == [t |-> "null"]
Bool(b) == [t |-> "boolean", b |-> b]
\* a finite number
Num(n) == [t |-> "number", n |-> n]
\* the number Infinity, which JSON.parse gives for a literal out of range
Inf == [t |-> "infinity"]
\* a string with the given text
Str(s) == [t |-> "string", s |-> s]
Arr(a) == [t |-> "array", a |-> a]
\* an object: its own enumerable properties, in order, as <<key text, value>>
Obj(o) == [t |-> "object", o |-> o]

\* The integers that occur as number literals and arguments in the model.
Numbers == {0, 1, 3, 7, 25}

\* A number literal too large for a double.
HugeLiteral == "1e999"

RECURSIVE Concat(_)
\* the concatenation of a sequence of texts
Concat(ts) == IF ts = <<>> THEN <<>> ELSE Head(ts) \o Concat(Tail(ts))

\* text contains sub as a contiguous part (String.prototype.includes)
Contains(text, sub) ==
  \E i \in 1..(Len(text) + 1) :
    /\ i + Len(sub) - 1 <= Len(text)
    /\ SubSeq(text, i, i + Len(sub) - 1) = sub

(***************************************************************************)
(* String(x) and template-literal interpolation of a primitive             *)
(***************************************************************************)
RECURSIVE String(_)
String(v) ==
  CASE v.t = "number" -> <<ToString(v.n)>>
    [] v.t = "infinity" -> <<"Infinity">>
    [] v.t = "boolean" -> IF v.b THEN <<"true">> ELSE <<"false">>
    [] v.t = "string" -> v.s
    [] v.t = "null" -> <<"null">>
    [] v.t = "undefined" -> <<"undefined">>
    [] v.t = "array" ->
         Concat([k \in 1..Len(v.a) |->
                   (IF k > 1 THEN <<",">> ELSE <<>>)
                   \o (IF v.a[k] \in {Null, Undef} THEN <<>> ELSE String(v.a[k]))])
    [] v.t = "object" -> <<"[object Object]">>

(***************************************************************************)
(* JSON.stringify(value, null, indent)                                     *)
(***************************************************************************)
\* one piece of a string, as it is written inside a JSON string literal
QuotePiece(p) ==
  CASE p = "\"" -> "\\\""
    [] p = "\\" -> "\\\\"
    [] p = "\n" -> "\\n"
    [] OTHER -> p

Quote(s) == <<"\"">> \o [k \in 1..Len(s) |-> QuotePiece(s[k])] \o <<"\"">>

\* a line break followed by `depth` indentation units; nothing when indent = 0
Break(indent, depth) ==
  IF indent = 0 THEN <<>> ELSE <<"\n">> \o [k \in 1..depth |-> "  "]

\* the properties JSON.stringify writes: those whose value is not undefined
Written(o) == SelectSeq(o, LAMBDA kv : kv[2] # Undef)

RECURSIVE Serialize(_, _, _)
Serialize(v, indent, depth) ==
  CASE v.t = "null" -> <<"null">>
    [] v.t = "boolean" -> String(v)
    [] v.t = "number" -> String(v)
    [] v.t = "infinity" -> <<"null">>
    [] v.t = "string" -> Quote(v.s)
    [] v.t = "undefined" -> <<"null">>
    [] v.t = "array" ->
         IF v.a = <<>> THEN <<"[", "]">>
         ELSE <<"[">>
              \o Concat([k \in 1..Len(v.a) |->
                   Break(indent, depth + 1)
                   \o Serialize(v.a[k], indent, depth + 1)
                   \o (IF k < Len(v.a) THEN <<",">> ELSE <<>>)])
              \o Break(indent, depth) \o <<"]">>
    [] v.t = "object" ->
         LET w == Written(v.o) IN
         IF w = <<>> THEN <<"{", "}">>
         ELSE <<"{">>
              \o Concat([k \in 1..Len(w) |->
                   Break(indent, depth + 1)
                   \o Quote(w[k][1]) \o <<":">>
                   \o (IF indent = 0 THEN <<>> ELSE <<" ">>)
                   \o Serialize(w[k][2], indent, depth + 1)
                   \o (IF k < Len(w) THEN <<",">> ELSE <<>>)])
              \o Break(indent, depth) \o <<"}">>

JSONStringify(v, indent) == Serialize(v, indent, 0)

(***************************************************************************)
(* JSON.parse(text): [ok |-> TRUE, val |-> value], or [ok |-> FALSE] when  *)
(* it throws a SyntaxError                                                 *)
(***************************************************************************)
Whitespace == {" ", "  ", "\n"}

NumberLiterals == {ToString(n) : n \in Numbers}

NumberOf(p) == CHOOSE n \in Numbers : ToString(n) = p

RECURSIVE SkipWs(_, _)
\* the first position at or after i that holds no whitespace
SkipWs(toks, i) ==
  IF i <= Len(toks) /\ toks[i] \in Whitespace THEN SkipWs(toks, i + 1) ELSE i

\* one piece of a JSON string literal, decoded
UnquotePiece(p) ==
  CASE p = "\\\"" -> "\""
    [] p = "\\\\" -> "\\"
    [] p = "\\n" -> "\n"
    [] OTHER -> p

\* pieces that may not stand unescaped inside a string literal
BadInLiteral == {"\n", "\\"}

Fail == [ok |-> FALSE]

\* the string literal that opens at position i (toks[i] is the quote)
ParseString(toks, i) ==
  LET closing == {j \in (i + 1)..Len(toks) : toks[j] = "\""} IN
  IF closing = {} THEN Fail
  ELSE LET j == CHOOSE c \in closing : \A d \in closing : c <= d
           raw == SubSeq(toks, i + 1, j - 1)
       IN IF \E k \in 1..Len(raw) : raw[k] \in BadInLiteral THEN Fail
          ELSE [ok |-> TRUE,
                val |-> [k \in 1..Len(raw) |-> UnquotePiece(raw[k])],
                next |-> j + 1]

\* the object with property k set to v (a repeated key keeps its first place)
SetProperty(o, k, v) ==
  IF \E n \in 1..Len(o) : o[n][1] = k
  THEN [n \in 1..Len(o) |-> IF o[n][1] = k THEN <<k, v>> ELSE o[n]]
  ELSE Append(o, <<k, v>>)

RECURSIVE ParseValue(_, _)
RECURSIVE ParseElements(_, _, _)
RECURSIVE ParseMembers(_, _, _)

\* the elements of an array, from position i (after "[" or ","), given those read
ParseElements(toks, i, acc) ==
  LET e == ParseValue(toks, i) IN
  IF ~e.ok THEN Fail
  ELSE LET j == SkipWs(toks, e.next) IN
       IF j > Len(toks) THEN Fail
       ELSE IF toks[j] = "]"
            THEN [ok |-> TRUE, val |-> Arr(Append(acc, e.val)), next |-> j + 1]
       ELSE IF toks[j] = ","
            THEN ParseElements(toks, j + 1, Append(acc, e.val))
       ELSE Fail

\* the members of an object, from position i (after "{" or ","), given those read
ParseMembers(toks, i, acc) ==
  LET k == SkipWs(toks, i) IN
  IF k > Len(toks) \/ toks[k] # "\"" THEN Fail
  ELSE LET key == ParseString(toks, k) IN
       IF ~key.ok THEN Fail
       ELSE LET c == SkipWs(toks, key.next) IN
            IF c > Len(toks) \/ toks[c] # ":" THEN Fail
            ELSE LET e == ParseValue(toks, c + 1) IN
                 IF ~e.ok THEN Fail
                 ELSE LET j == SkipWs(toks, e.next)
                          got == SetProperty(acc, key.val, e.val)
                      IN IF j > Len(toks) THEN Fail
                         ELSE IF toks[j] = "}"
                              THEN [ok |-> TRUE, val |-> Obj(got), next |-> j + 1]
                         ELSE IF toks[j] = ","
                              THEN ParseMembers(toks, j + 1, got)
                         ELSE Fail

\* the value that starts at or after position i
ParseValue(toks, i) ==
  LET s == SkipWs(toks, i) IN
  IF s > Len(toks) THEN Fail
  ELSE LET p == toks[s] IN
    CASE p = "null" -> [ok |-> TRUE, val |-> Null, next |-> s + 1]
      [] p = "true" -> [ok |-> TRUE, val |-> Bool(TRUE), next |-> s + 1]
      [] p = "false" -> [ok |-> TRUE, val |-> Bool(FALSE), next |-> s + 1]
      [] p \in NumberLiterals ->
           [ok |-> TRUE, val |-> Num(NumberOf(p)), next |-> s + 1]
      [] p = HugeLiteral -> [ok |-> TRUE, val |-> Inf, next |-> s + 1]
      [] p = "\"" ->
           LET str == ParseString(toks, s) IN
           IF str.ok THEN [ok |-> TRUE, val |-> Str(str.val), next |-> str.next]
           ELSE Fail
      [] p = "[" ->
           LET j == SkipWs(toks, s + 1) IN
           IF j <= Len(toks) /\ toks[j] = "]"
           THEN [ok |-> TRUE, val |-> Arr(<<>>), next |-> j + 1]
           ELSE ParseElements(toks, s + 1, <<>>)
      [] p = "{" ->
           LET j == SkipWs(toks, s + 1) IN
           IF j <= Len(toks) /\ toks[j] = "}"
           THEN [ok |-> TRUE, val |-> Obj(<<>>), next |-> j + 1]
           ELSE ParseMembers(toks, s + 1, <<>>)
      [] OTHER -> Fail

JSONParse(text) ==
  LET r == ParseValue(text, 1) IN
  IF r.ok /\ SkipWs(text, r.next) > Len(text)
  THEN [ok |-> TRUE, val |-> r.val]
  ELSE Fail

(***************************************************************************)
(* The state                                                               *)
(***************************************************************************)
VARIABLES
  clientConfig, \* the { apiKey, orgId } the client was constructed with
  pulse,        \* the client instance: its private apiKey and orgId
  pc,           \* per slot: "idle", "awaiting" (suspended at fetch),
                \*   "returned" (the handler returned), "rejected" (it threw)
  invocation,   \* per slot: the tool invoked and its validated arguments
  clientCalls,  \* per slot: the client operations the handler has called
  requested,    \* per slot: the calls of request(...), each with the fetch
                \*   call it made: [method, path, fetch |-> [url, options]]
  settled,      \* per slot: what fetch settled with
  thrown,       \* per slot: the errors raised inside the handler's try
  results,      \* per slot: the values the client operation returned
  envelopes,    \* per slot: the envelopes the handler returned
  escaped       \* per slot: the errors that left the handler

vars == <<clientConfig, pulse, pc, invocation, clientCalls, requested, settled,
          thrown, results, envelopes, escaped>>

(***************************************************************************)
(* NeatPulseClient                                                         *)
(***************************************************************************)
BASE_URL == <<"https://api.pulse.neat.no/v1">>

HeaderNames == {"Authorization", "Content-Type", "Accept"}

headers ==
  [h \in HeaderNames |->
     CASE h = "Authorization" -> <<"Bearer ">> \o pulse.apiKey
       [] h = "Content-Type" -> <<"application/json">>
       [] h = "Accept" -> <<"application/json">>]

url(path) == BASE_URL \o <<"/orgs/">> \o pulse.orgId \o path

\* RequestInit sending Content-Type only with a body
RequestInitBare(method, body) ==
  IF body # Undef
  THEN [method |-> method, headers |-> headers, body |-> JSONStringify(body, 0)]
  ELSE [method |-> method,
        headers |-> [h \in HeaderNames \ {"Content-Type"} |-> headers[h]]]

\* RequestInit handing the body to fetch without JSON.stringify
RequestInitRaw(method, body) ==
  IF body # Undef
  THEN [method |-> method, headers |-> headers,
        body |-> String(body)]
  ELSE [method |-> method, headers |-> headers]

\* RequestInit as one options object kept between calls: a call without a body
\* sends the body that another call, still in flight, has left in it
RequestInitShared(method, body) ==
  LET left == {j \in Slots : requested[j] # <<>>
                 /\ "body" \in DOMAIN requested[j][1].fetch.options} IN
  IF body # Undef
  THEN [method |-> method, headers |-> headers, body |-> JSONStringify(body, 0)]
  ELSE IF left # {}
  THEN [method |-> method, headers |-> headers,
        body |-> requested[CHOOSE j \in left : TRUE][1].fetch.options.body]
  ELSE [method |-> method, headers |-> headers]

\* const options = { method, headers }; if (body !== undefined) options.body = ...
RequestInit(method, body) ==
  IF body # Undef
  THEN [method |-> method, headers |-> headers, body |-> JSONStringify(body, 0)]
  ELSE [method |-> method, headers |-> headers]

\* request(method, path, body) up to its await: the fetch call it makes
request(method, path, body) ==
  [method |-> method, path |-> path,
   fetch |-> [url |-> url(path), options |-> RequestInit(method, body)]]

\* Response.ok
Ok(status) == 200 <= status /\ status <= 299

\* an Error with the given message
Error(name, message) == [name |-> name, message |-> message]

\* what JSON.parse and Response.json throw on text that is not JSON
SyntaxError == Error("SyntaxError", <<"Unexpected token in JSON">>)

\* what fetch rejects with when the transport fails
FetchFailed == Error("TypeError", <<"fetch failed">>)

\* what reading a body rejects with when the stream breaks
BodyFailed == Error("TypeError", <<"terminated">>)

Returns(v) == [threw |-> FALSE, val |-> v]
Throws(e) == [threw |-> TRUE, err |-> e]

\* res.text()
ResText(res) == IF res.readable THEN Returns(Str(res.body)) ELSE Throws(BodyFailed)

\* res.json()
ResJson(res) ==
  IF ~res.readable THEN Throws(BodyFailed)
  ELSE LET p == JSONParse(res.body) IN
       IF p.ok THEN Returns(p.val) ELSE Throws(SyntaxError)

\* CatchEmpty substituting the read failure's message instead of ""
CatchMessage(r) == IF r.threw THEN Str(r.err.message) ELSE r.val

\* promise.catch(() => "")
CatchEmpty(r) == IF r.threw THEN Str(<<>>) ELSE r.val

\* a ?? b
Nullish(a, b) == IF a = Null \/ a = Undef THEN b ELSE a

\* the message of the error request raises on a response that is not ok
StatusMessage(method, path, status, text) ==
  <<"Neat Pulse API ", method, " ">> \o path
  \o <<" returned ", ToString(status), ": ">> \o text

\* IsJsonType as an exact comparison instead of includes
IsJsonTypeExact(contentType) == contentType = <<"application/json">>

\* the test request applies to the content-type header
IsJsonType(contentType) == Contains(contentType, <<"application/json">>)

\* request(...) from the settling of its fetch to its end
requestSettle(call, outcome) ==
  IF outcome.kind = "reject" THEN Throws(FetchFailed)
  ELSE LET res == outcome.res IN
    IF ~Ok(res.status)
    THEN LET text == CatchEmpty(ResText(res)) IN
         Throws(Error("Error",
                      StatusMessage(call.method, call.path, res.status, text.s)))
    ELSE LET contentType == Nullish(res.contentType, Str(<<>>)) IN
         IF IsJsonType(contentType.s) THEN ResJson(res) ELSE ResText(res)

(***************************************************************************)
(* URLSearchParams: a list of <<name, value>> pairs                        *)
(***************************************************************************)
\* params.set(name, value)
ParamsSet(params, name, value) ==
  IF \E n \in 1..Len(params) : params[n][1] = name
  THEN [n \in 1..Len(params) |->
          IF params[n][1] = name THEN <<name, value>> ELSE params[n]]
  ELSE Append(params, <<name, value>>)

\* one piece of text, as application/x-www-form-urlencoded writes it
FormEncodePiece(p) ==
  CASE p = " " -> "+"
    [] p = "&" -> "%26"
    [] p = "=" -> "%3D"
    [] p = ":" -> "%3A"
    [] p = "?" -> "%3F"
    [] p = "/" -> "%2F"
    [] OTHER -> p

FormEncode(s) == [k \in 1..Len(s) |-> FormEncodePiece(s[k])]

\* params.toString()
ParamsToString(params) ==
  Concat([n \in 1..Len(params) |->
            (IF n > 1 THEN <<"&">> ELSE <<>>)
            \o FormEncode(params[n][1]) \o <<"=">> \o FormEncode(params[n][2])])

\* SetIfDefined testing truthiness, `if (value)`, instead of `!== undefined`
SetIfTruthy(params, name, value) ==
  IF value \notin {Undef, Null, Num(0), Str(<<>>), Bool(FALSE)}
  THEN ParamsSet(params, <<name>>, String(value))
  ELSE params

\* if (value !== undefined) params.set(name, String(value))
SetIfDefined(params, name, value) ==
  IF value # Undef THEN ParamsSet(params, <<name>>, String(value)) ELSE params

\* QuerySuffix writing the "?" whether or not there are parameters
QuerySuffixAlways(qs) == <<"?">> \o qs

\* `${qs ? `?${qs}` : ""}`
QuerySuffix(qs) == IF qs # <<>> THEN <<"?">> \o qs ELSE <<>>

(***************************************************************************)
(* The client's operations: each is one call of request                    *)
(***************************************************************************)
listEndpoints(regionId, locationId) ==
  LET params == SetIfDefined(SetIfDefined(<<>>, "regionId", regionId),
                             "locationId", locationId)
      qs == ParamsToString(params)
  IN request("GET", <<"/endpoints">> \o QuerySuffix(qs), Undef)

getEndpoint(id) ==
  request("GET", <<"/endpoints/">> \o String(id), Undef)

\* the settings read with the method of the operation that writes them
getEndpointSettingsPost(id) ==
  request("POST", <<"/endpoints/">> \o String(id) \o <<"/config">>, Undef)

getEndpointSettings(id) ==
  request("GET", <<"/endpoints/">> \o String(id) \o <<"/config">>, Undef)

applyEndpointConfig(id, config) ==
  request("POST", <<"/endpoints/">> \o String(id) \o <<"/config">>, config)

rebootEndpoint(id) ==
  request("POST", <<"/endpoints/">> \o String(id) \o <<"/reboot">>, Undef)

deleteEndpoint(id) ==
  request("DELETE", <<"/endpoints/">> \o String(id), Undef)

getEndpointSensorData(id) ==
  request("GET", <<"/endpoints/">> \o String(id) \o <<"/sensor">>, Undef)

getBulkSensorData(regionId, locationId) ==
  LET params == SetIfDefined(SetIfDefined(<<>>, "regionId", regionId),
                             "locationId", locationId)
      qs == ParamsToString(params)
  IN request("GET", <<"/endpoints/sensor">> \o QuerySuffix(qs), Undef)

listRooms ==
  request("GET", <<"/rooms">>, Undef)

getRoom(id) ==
  request("GET", <<"/rooms/">> \o String(id), Undef)

createRoom(data) ==
  request("POST", <<"/rooms">>, data)

updateRoom(id, data) ==
  request("PUT", <<"/rooms/">> \o String(id), data)

deleteRoom(id) ==
  request("DELETE", <<"/rooms/">> \o String(id), Undef)

getRoomSensorData(id) ==
  request("GET", <<"/rooms/">> \o String(id) \o <<"/sensor">>, Undef)

getBulkRoomSensorData ==
  request("GET", <<"/rooms/sensor">>, Undef)

regenerateRoomDec(id) ==
  request("POST", <<"/rooms/">> \o String(id) \o <<"/regenerate-dec">>, Undef)

listLocations ==
  request("GET", <<"/locations">>, Undef)

createLocation(data) ==
  request("POST", <<"/locations">>, data)

updateLocation(id, data) ==
  request("PUT", <<"/locations/">> \o String(id), data)

deleteLocation(id) ==
  request("DELETE", <<"/locations/">> \o String(id), Undef)

listRegions ==
  request("GET", <<"/regions">>, Undef)

createRegion(data) ==
  request("POST", <<"/regions">>, data)

updateRegion(id, data) ==
  request("PUT", <<"/regions/">> \o String(id), data)

deleteRegion(id) ==
  request("DELETE", <<"/regions/">> \o String(id), Undef)

listProfiles ==
  request("GET", <<"/profiles">>, Undef)

getAuditLogs(from, to, pageToken, pageSize) ==
  LET params == SetIfDefined(
                  SetIfDefined(<< <<<<"from">>, String(from)>>,
                                  <<<<"to">>, String(to)>> >>,
                               "pageToken", pageToken),
                  "pageSize", pageSize)
  IN request("GET", <<"/audit/logs", "?">> \o ParamsToString(params), Undef)

generateBugReport(ids, uploadInCallLogs) ==
  LET params == SetIfDefined(<<>>, "uploadInCallLogs", uploadInCallLogs)
      qs == ParamsToString(params)
  IN request("POST", <<"/endpoints/generate_bug_report">> \o QuerySuffix(qs), ids)

listRoomNotes(roomId) ==
  request("GET", <<"/rooms/">> \o String(roomId) \o <<"/notes">>, Undef)

getRoomNote(roomId, noteId) ==
  request("GET", <<"/rooms/">> \o String(roomId) \o <<"/notes/">> \o String(noteId), Undef)

createRoomNote(roomId, content) ==
  request("POST", <<"/rooms/">> \o String(roomId) \o <<"/notes">>, content)

deleteRoomNote(roomId, noteId) ==
  request("DELETE", <<"/rooms/">> \o String(roomId) \o <<"/notes/">> \o String(noteId), Undef)

listAllRoomNotes ==
  request("GET", <<"/rooms/notes">>, Undef)

listUsers ==
  request("GET", <<"/users">>, Undef)

getUser(id) ==
  request("GET", <<"/users/">> \o String(id), Undef)

createUser(data) ==
  request("POST", <<"/users">>, data)

updateUser(id, data) ==
  request("PUT", <<"/users/">> \o String(id), data)

deleteUser(id) ==
  request("DELETE", <<"/users/">> \o String(id), Undef)

(***************************************************************************)
(* The tool adapter                                                        *)
(***************************************************************************)
\* json(data): the success envelope
json(data) ==
  [content |-> << [type |-> "text", text |-> JSONStringify(data, 2)] >>]

\* error without its isError flag
errorUnflagged(message) ==
  [content |-> << [type |-> "text", text |-> <<"Error: ">> \o message] >>]

\* error(message): the error envelope
error(message) ==
  [content |-> << [type |-> "text", text |-> <<"Error: ">> \o message] >>,
   isError |-> TRUE]

\* args.name: the property's value, undefined when args has no such property
Prop(args, name) ==
  IF \E n \in 1..Len(args.o) : args.o[n][1] = <<name>>
  THEN args.o[CHOOSE n \in 1..Len(args.o) : args.o[n][1] = <<name>>][2]
  ELSE Undef

\* ({ id, ...updates }) => updates: args without the named properties
Rest(args, names) == Obj(SelectSeq(args.o, LAMBDA kv : kv[1][1] \notin names))

(* What one run of a handler does between two suspensions: the client      *)
(* operations it calls, the fetch calls those make, the errors raised      *)
(* inside its try, the values the client returned, the envelopes it        *)
(* returns, and the errors that leave it.                                  *)
Nothing ==
  [calls |-> <<>>, fetches |-> <<>>, thrown |-> <<>>, results |-> <<>>,
   returned |-> <<>>, escaped |-> <<>>]

\* Await without the await: return json(pulse.op(...)) hands the pending
\* promise to JSON.stringify, which writes it as {}
AwaitMissing(op, call) ==
  [Nothing EXCEPT !.calls = <<op>>, !.fetches = <<call>>,
                  !.returned = <<json(Obj(<<>>))>>]

\* const data = await pulse.op(...): the operation is called and suspends at fetch
Await(op, call) == [Nothing EXCEPT !.calls = <<op>>, !.fetches = <<call>>]

\* Catch with the error thrown on instead of turned into an envelope
CatchRethrow(e) == [Nothing EXCEPT !.thrown = <<e>>, !.escaped = <<e>>]

\* catch (e) { return error(e.message); }
Catch(e) == [Nothing EXCEPT !.thrown = <<e>>, !.returned = <<error(e.message)>>]

\* return json(data);
Return(data) == [Nothing EXCEPT !.results = <<data>>, !.returned = <<json(data)>>]

\* Continue with the request issued again after a failure
ContinueRetry(call, outcome) ==
  LET r == requestSettle(call, outcome) IN
  IF r.threw THEN [Nothing EXCEPT !.thrown = <<r.err>>, !.fetches = <<call>>]
  ELSE Return(r.val)

\* a handler from the settling of its await to its end
Continue(call, outcome) ==
  LET r == requestSettle(call, outcome) IN
  IF r.threw THEN Catch(r.err) ELSE Return(r.val)

(* The handlers, each up to its await.                                     *)
list_devices(args) ==
  Await("listEndpoints", listEndpoints(Prop(args, "regionId"), Prop(args, "locationId")))

get_device(args) ==
  Await("getEndpoint", getEndpoint(Prop(args, "id")))

get_device_settings(args) ==
  Await("getEndpointSettings", getEndpointSettings(Prop(args, "id")))

\* apply_device_config forwarding the text when it does not parse
apply_device_config_Lenient(args) ==
  LET parsed == JSONParse(Prop(args, "config").s) IN
  Await("applyEndpointConfig",
        applyEndpointConfig(Prop(args, "id"),
                            IF parsed.ok THEN parsed.val ELSE Prop(args, "config")))

apply_device_config(args) ==
  LET parsed == JSONParse(Prop(args, "config").s) IN
  IF ~parsed.ok THEN Catch(SyntaxError)
  ELSE Await("applyEndpointConfig", applyEndpointConfig(Prop(args, "id"), parsed.val))

reboot_device(args) ==
  Await("rebootEndpoint", rebootEndpoint(Prop(args, "id")))

delete_device(args) ==
  Await("deleteEndpoint", deleteEndpoint(Prop(args, "id")))

get_device_sensors(args) ==
  Await("getEndpointSensorData", getEndpointSensorData(Prop(args, "id")))

get_all_device_sensors(args) ==
  Await("getBulkSensorData", getBulkSensorData(Prop(args, "regionId"), Prop(args, "locationId")))

get_room_sensors(args) ==
  Await("getRoomSensorData", getRoomSensorData(Prop(args, "id")))

get_all_room_sensors(args) ==
  Await("getBulkRoomSensorData", getBulkRoomSensorData)

list_rooms(args) ==
  Await("listRooms", listRooms)

get_room(args) ==
  Await("getRoom", getRoom(Prop(args, "id")))

create_room(args) ==
  Await("createRoom", createRoom(args))

update_room(args) ==
  Await("updateRoom", updateRoom(Prop(args, "id"), Rest(args, {"id"})))

delete_room(args) ==
  Await("deleteRoom", deleteRoom(Prop(args, "id")))

regenerate_room_dec(args) ==
  Await("regenerateRoomDec", regenerateRoomDec(Prop(args, "id")))

list_locations(args) ==
  Await("listLocations", listLocations)

create_location(args) ==
  Await("createLocation", createLocation(args))

update_location(args) ==
  Await("updateLocation", updateLocation(Prop(args, "id"), Rest(args, {"id"})))

delete_location(args) ==
  Await("deleteLocation", deleteLocation(Prop(args, "id")))

list_regions(args) ==
  Await("listRegions", listRegions)

create_region(args) ==
  Await("createRegion", createRegion(args))

update_region(args) ==
  Await("updateRegion", updateRegion(Prop(args, "id"), Rest(args, {"id"})))

delete_region(args) ==
  Await("deleteRegion", deleteRegion(Prop(args, "id")))

list_users(args) ==
  Await("listUsers", listUsers)

get_user(args) ==
  Await("getUser", getUser(Prop(args, "id")))

create_user(args) ==
  Await("createUser", createUser(args))

update_user(args) ==
  Await("updateUser", updateUser(Prop(args, "id"), Rest(args, {"id"})))

delete_user(args) ==
  Await("deleteUser", deleteUser(Prop(args, "id")))

list_profiles(args) ==
  Await("listProfiles", listProfiles)

get_audit_logs(args) ==
  Await("getAuditLogs", getAuditLogs(Prop(args, "from"), Prop(args, "to"),
                                     Prop(args, "pageToken"), Prop(args, "pageSize")))

generate_bug_report(args) ==
  Await("generateBugReport", generateBugReport(Prop(args, "ids"), Prop(args, "uploadInCallLogs")))

list_room_notes(args) ==
  Await("listRoomNotes", listRoomNotes(Prop(args, "roomId")))

get_room_note(args) ==
  Await("getRoomNote", getRoomNote(Prop(args, "roomId"), Prop(args, "noteId")))

create_room_note(args) ==
  LET parsed == JSONParse(Prop(args, "content").s) IN
  IF ~parsed.ok THEN Catch(SyntaxError)
  ELSE Await("createRoomNote", createRoomNote(Prop(args, "roomId"), parsed.val))

delete_room_note(args) ==
  Await("deleteRoomNote", deleteRoomNote(Prop(args, "roomId"), Prop(args, "noteId")))

list_all_room_notes(args) ==
  Await("listAllRoomNotes", listAllRoomNotes)

ToolNames ==
  {"list_devices", "get_device", "get_device_settings", "apply_device_config",
   "reboot_device", "delete_device", "get_device_sensors", "get_all_device_sensors",
   "get_room_sensors", "get_all_room_sensors", "list_rooms", "get_room",
   "create_room", "update_room", "delete_room", "regenerate_room_dec",
   "list_locations", "create_location", "update_location", "delete_location",
   "list_regions", "create_region", "update_region", "delete_region",
   "list_users", "get_user", "create_user", "update_user",
   "delete_user", "list_profiles", "get_audit_logs", "generate_bug_report",
   "list_room_notes", "get_room_note", "create_room_note", "delete_room_note",
   "list_all_room_notes"}

\* the handler registered under the tool's name
Handler(tool, args) ==
  CASE tool = "list_devices" -> list_devices(args)
    [] tool = "get_device" -> get_device(args)
    [] tool = "get_device_settings" -> get_device_settings(args)
    [] tool = "apply_device_config" -> apply_device_config(args)
    [] tool = "reboot_device" -> reboot_device(args)
    [] tool = "delete_device" -> delete_device(args)
    [] tool = "get_device_sensors" -> get_device_sensors(args)
    [] tool = "get_all_device_sensors" -> get_all_device_sensors(args)
    [] tool = "get_room_sensors" -> get_room_sensors(args)
    [] tool = "get_all_room_sensors" -> get_all_room_sensors(args)
    [] tool = "list_rooms" -> list_rooms(args)
    [] tool = "get_room" -> get_room(args)
    [] tool = "create_room" -> create_room(args)
    [] tool = "update_room" -> update_room(args)
    [] tool = "delete_room" -> delete_room(args)
    [] tool = "regenerate_room_dec" -> regenerate_room_dec(args)
    [] tool = "list_locations" -> list_locations(args)
    [] tool = "create_location" -> create_location(args)
    [] tool = "update_location" -> update_location(args)
    [] tool = "delete_location" -> delete_location(args)
    [] tool = "list_regions" -> list_regions(args)
    [] tool = "create_region" -> create_region(args)
    [] tool = "update_region" -> update_region(args)
    [] tool = "delete_region" -> delete_region(args)
    [] tool = "list_users" -> list_users(args)
    [] tool = "get_user" -> get_user(args)
    [] tool = "create_user" -> create_user(args)
    [] tool = "update_user" -> update_user(args)
    [] tool = "delete_user" -> delete_user(args)
    [] tool = "list_profiles" -> list_profiles(args)
    [] tool = "get_audit_logs" -> get_audit_logs(args)
    [] tool = "generate_bug_report" -> generate_bug_report(args)
    [] tool = "list_room_notes" -> list_room_notes(args)
    [] tool = "get_room_note" -> get_room_note(args)
    [] tool = "create_room_note" -> create_room_note(args)
    [] tool = "delete_room_note" -> delete_room_note(args)
    [] tool = "list_all_room_notes" -> list_all_room_notes(args)

(***************************************************************************)
(* The input schemas and the argument values the model draws from          *)
(***************************************************************************)
StringIds == {Str(<<"abc">>)}
NumberIds == {Num(0), Num(7)}
NumberValues == {Num(0), Num(7)}
NameValues == {Str(<<"Lobby">>)}
EmailValues == {Str(<<"a@b.c">>)}
RoleValues == {Str(<<"owner">>), Str(<<"admin">>)}
RegionIdLists == {Arr(<<>>), Arr(<<Num(7)>>)}
IdLists == {Arr(<<>>), Arr(<<Str(<<"abc">>)>>)}
BooleanValues == {Bool(TRUE), Bool(FALSE)}
DateValues == {Str(<<"2024-01-01T10", ":", "00", ":", "00Z">>)}
PageTokens == {Str(<<>>), Str(<<"tok">>), Str(<<"a", "&", "b">>)}

\* the texts given as `config` and `content`
JsonTexts ==
  {Str(<<"{", "\"", "volume", "\"", ":", "7", "}">>),
   Str(<<"{", "\"", "tags", "\"", ":", " ", "[", "\"", "a", " ", "b", "\"",
         ",", "null", "]", ",", "\"", "on", "\"", ":", "true", "}">>),
   Str(<<"{", "\"", "level", "\"", ":", HugeLiteral, "}">>),
   Str(<<"{", "not", " ", "valid", " ", "json">>),
   Str(<<>>)}

\* a parameter of a schema: its name, the values drawn for it, z.optional()
Param(name, values, optional) ==
  [name |-> name, values |-> values, optional |-> optional]

inputSchema(tool) ==
  CASE tool = "list_devices" ->
         <<Param("regionId", NumberValues, TRUE), Param("locationId", NumberValues, TRUE)>>
    [] tool = "get_device" ->
         <<Param("id", StringIds, FALSE)>>
    [] tool = "get_device_settings" ->
         <<Param("id", StringIds, FALSE)>>
    [] tool = "apply_device_config" ->
         <<Param("id", StringIds, FALSE), Param("config", JsonTexts, FALSE)>>
    [] tool = "reboot_device" ->
         <<Param("id", StringIds, FALSE)>>
    [] tool = "delete_device" ->
         <<Param("id", StringIds, FALSE)>>
    [] tool = "get_device_sensors" ->
         <<Param("id", StringIds, FALSE)>>
    [] tool = "get_all_device_sensors" ->
         <<Param("regionId", NumberValues, TRUE), Param("locationId", NumberValues, TRUE)>>
    [] tool = "get_room_sensors" ->
         <<Param("id", StringIds, FALSE)>>
    [] tool = "get_all_room_sensors" ->
         <<>>
    [] tool = "list_rooms" ->
         <<>>
    [] tool = "get_room" ->
         <<Param("id", StringIds, FALSE)>>
    [] tool = "create_room" ->
         <<Param("name", NameValues, FALSE), Param("locationId", NumberValues, TRUE)>>
    [] tool = "update_room" ->
         <<Param("id", StringIds, FALSE), Param("name", NameValues, TRUE), Param("locationId", NumberValues, TRUE)>>
    [] tool = "delete_room" ->
         <<Param("id", StringIds, FALSE)>>
    [] tool = "regenerate_room_dec" ->
         <<Param("id", StringIds, FALSE)>>
    [] tool = "list_locations" ->
         <<>>
    [] tool = "create_location" ->
         <<Param("name", NameValues, FALSE), Param("regionId", NumberValues, TRUE)>>
    [] tool = "update_location" ->
         <<Param("id", NumberIds, FALSE), Param("name", NameValues, TRUE), Param("regionId", NumberValues, TRUE)>>
    [] tool = "delete_location" ->
         <<Param("id", NumberIds, FALSE)>>
    [] tool = "list_regions" ->
         <<>>
    [] tool = "create_region" ->
         <<Param("name", NameValues, FALSE)>>
    [] tool = "update_region" ->
         <<Param("id", NumberIds, FALSE), Param("name", NameValues, FALSE)>>
    [] tool = "delete_region" ->
         <<Param("id", NumberIds, FALSE)>>
    [] tool = "list_users" ->
         <<>>
    [] tool = "get_user" ->
         <<Param("id", StringIds, FALSE)>>
    [] tool = "create_user" ->
         <<Param("email", EmailValues, FALSE), Param("role", RoleValues, TRUE), Param("regionIds", RegionIdLists, TRUE)>>
    [] tool = "update_user" ->
         <<Param("id", StringIds, FALSE), Param("role", RoleValues, TRUE), Param("regionIds", RegionIdLists, TRUE)>>
    [] tool = "delete_user" ->
         <<Param("id", StringIds, FALSE)>>
    [] tool = "list_profiles" ->
         <<>>
    [] tool = "get_audit_logs" ->
         <<Param("from", DateValues, FALSE), Param("to", DateValues, FALSE), Param("pageToken", PageTokens, TRUE), Param("pageSize", NumberValues, TRUE)>>
    [] tool = "generate_bug_report" ->
         <<Param("ids", IdLists, FALSE), Param("uploadInCallLogs", BooleanValues, TRUE)>>
    [] tool = "list_room_notes" ->
         <<Param("roomId", StringIds, FALSE)>>
    [] tool = "get_room_note" ->
         <<Param("roomId", StringIds, FALSE), Param("noteId", StringIds, FALSE)>>
    [] tool = "create_room_note" ->
         <<Param("roomId", StringIds, FALSE), Param("content", JsonTexts, FALSE)>>
    [] tool = "delete_room_note" ->
         <<Param("roomId", StringIds, FALSE), Param("noteId", StringIds, FALSE)>>
    [] tool = "list_all_room_notes" ->
         <<>>

RECURSIVE Objects(_)
\* the property lists a schema accepts: every required parameter, and any
\* subset of the optional ones, in the schema's order
Objects(schema) ==
  IF schema = <<>> THEN {<<>>}
  ELSE LET p == Head(schema)
           rest == Objects(Tail(schema))
           with == {<< <<<<p.name>>, v>> >> \o r : v \in p.values, r \in rest}
       IN IF p.optional THEN with \cup rest ELSE with

\* the validated arguments a handler can be called with
ValidArgs(tool) == {Obj(o) : o \in Objects(inputSchema(tool))}

(***************************************************************************)
(* The remote service: what a fetch can settle with                        *)
(***************************************************************************)
Statuses == {200, 204, 404, 500}

\* res.headers.get("content-type"): null when the header is missing
ContentTypes ==
  {Null,
   Str(<<"application/json">>),
   Str(<<"application/json", ";", " ", "charset=utf-8">>),
   Str(<<"text/plain">>)}

Bodies ==
  {<<"{", "\"", "id", "\"", ":", "\"", "abc", "\"", "}">>,
   <<"{", "\"", "temp", "\"", ":", HugeLiteral, "}">>,
   <<"7">>,
   <<"not", " ", "found">>,
   <<"say", " ", "\"", "hi", "\"">>,
   <<>>}

\* a response whose body can be read, or one whose body stream breaks
Responses ==
  [status : Statuses, contentType : ContentTypes, body : Bodies,
   readable : {TRUE}]
  \cup [status : Statuses, contentType : ContentTypes, body : {<<>>},
        readable : {FALSE}]

Outcomes ==
  {[kind |-> "reject"]} \cup {[kind |-> "response", res |-> r] : r \in Responses}

ApiKeys == {<<"key-1">>, <<"key-2">>}
OrgIds == {<<"org-1">>}

(***************************************************************************)
(* The state machine                                                       *)
(***************************************************************************)
\* new NeatPulseClient(config): the two fields are assigned as they are given
constructor(config) ==
  Returns([apiKey |-> config.apiKey, orgId |-> config.orgId])

\* the bootstrap's guard: !apiKey || !orgId (an unset variable and an empty
\* one are both falsy; both are the empty text here)
Missing(config) == config.apiKey = <<>> \/ config.orgId = <<>>

\* no handler has been called, nothing has been sent
Idle ==
  /\ pc = [i \in Slots |-> "idle"]
  /\ invocation = [i \in Slots |-> <<>>]
  /\ clientCalls = [i \in Slots |-> <<>>]
  /\ requested = [i \in Slots |-> <<>>]
  /\ settled = [i \in Slots |-> <<>>]
  /\ thrown = [i \in Slots |-> <<>>]
  /\ results = [i \in Slots |-> <<>>]
  /\ envelopes = [i \in Slots |-> <<>>]
  /\ escaped = [i \in Slots |-> <<>>]

\* pulse = new NeatPulseClient(clientConfig); no invocation has been dispatched
Init ==
  /\ clientConfig \in {[apiKey |-> k, orgId |-> o] : k \in ApiKeys, o \in OrgIds}
  /\ ~Missing(clientConfig)
  /\ ~constructor(clientConfig).threw
  /\ pulse = constructor(clientConfig).val
  /\ Idle

\* where a handler stands after a run
After(step) ==
  IF step.returned # <<>> THEN "returned"
  ELSE IF step.escaped # <<>> THEN "rejected"
  ELSE "awaiting"

\* the handler of slot i runs up to its next suspension or its end
Run(i, step) ==
  /\ clientCalls' = [clientCalls EXCEPT ![i] = @ \o step.calls]
  /\ requested' = [requested EXCEPT ![i] = @ \o step.fetches]
  /\ thrown' = [thrown EXCEPT ![i] = @ \o step.thrown]
  /\ results' = [results EXCEPT ![i] = @ \o step.results]
  /\ envelopes' = [envelopes EXCEPT ![i] = @ \o step.returned]
  /\ escaped' = [escaped EXCEPT ![i] = @ \o step.escaped]
  /\ pc' = [pc EXCEPT ![i] = After(step)]

\* the transport calls the handler of `tool` with validated arguments
Invoke(i, tool, args) ==
  /\ pc[i] = "idle"
  /\ invocation' = [invocation EXCEPT ![i] = <<[tool |-> tool, args |-> args]>>]
  /\ Run(i, Handler(tool, args))
  /\ UNCHANGED <<clientConfig, pulse, settled>>

\* the fetch of slot i settles and the handler runs on from its await
Settle(i, outcome) ==
  /\ pc[i] = "awaiting"
  /\ requested[i] # <<>>
  /\ settled' = [settled EXCEPT ![i] = @ \o <<outcome>>]
  /\ Run(i, Continue(requested[i][Len(requested[i])], outcome))
  /\ UNCHANGED <<clientConfig, pulse, invocation>>

\* the transport has taken the handler's outcome; the slot is free again
Release(i) ==
  /\ pc[i] \in {"returned", "rejected"}
  /\ pc' = [pc EXCEPT ![i] = "idle"]
  /\ invocation' = [invocation EXCEPT ![i] = <<>>]
  /\ clientCalls' = [clientCalls EXCEPT ![i] = <<>>]
  /\ requested' = [requested EXCEPT ![i] = <<>>]
  /\ settled' = [settled EXCEPT ![i] = <<>>]
  /\ thrown' = [thrown EXCEPT ![i] = <<>>]
  /\ results' = [results EXCEPT ![i] = <<>>]
  /\ envelopes' = [envelopes EXCEPT ![i] = <<>>]
  /\ escaped' = [escaped EXCEPT ![i] = <<>>]
  /\ UNCHANGED <<clientConfig, pulse>>

\* the transport dispatches one invocation at a time
Dispatch(i) ==
  /\ \A j \in Slots \ {i} : pc[j] = "idle"
  /\ \E tool \in ToolNames : \E args \in ValidArgs(tool) : Invoke(i, tool, args)

Respond(i) == \E outcome \in Outcomes : Settle(i, outcome)

Next == \E i \in Slots : Dispatch(i) \/ Respond(i) \/ Release(i)

Spec == Init /\ [][Next]_vars

\* the fetch calls slot i has issued
Sent(i) == [k \in 1..Len(requested[i]) |-> requested[i][k].fetch]

\* the handler of slot i has been called
Invoked(i) == invocation[i] # <<>>

\* the handler of slot i has ended
Ended(i) == pc[i] \in {"returned", "rejected"}

\* the text of an envelope
TextOf(env) == env.content[1].text

(***************************************************************************)
(* The client class on its own                                             *)
(*                                                                         *)
(* NeatPulseClient is exported: a caller other than the bootstrap can      *)
(* construct it with any configuration, the empty texts included, and then *)
(* call its operations as the handlers call them.                          *)
(***************************************************************************)
Configs ==
  {[apiKey |-> k, orgId |-> o] :
     k \in ApiKeys \cup {<<>>}, o \in OrgIds \cup {<<>>}}

\* a construction that throws leaves no client behind, so no state
InitClient ==
  /\ clientConfig \in Configs
  /\ ~constructor(clientConfig).threw
  /\ pulse = constructor(clientConfig).val
  /\ Idle

SpecClient == InitClient /\ [][Next]_vars

(***************************************************************************)
(* Invocations in flight together                                          *)
(*                                                                         *)
(* The transport does not wait for one handler to end before it calls the  *)
(* next: a handler runs without interruption up to its await, and any      *)
(* number of handlers can be suspended there at once.  Their fetches       *)
(* settle in any order.  The tools and the outcomes are a part of those of *)
(* Spec, small enough for every interleaving of the slots to be explored.  *)
(***************************************************************************)
OverlapTools ==
  {"get_device_settings", "apply_device_config", "reboot_device",
   "delete_location", "create_region"}

OverlapOutcomes ==
  {[kind |-> "reject"],
   [kind |-> "response",
    res |-> [status |-> 200, contentType |-> Str(<<"application/json">>),
             body |-> <<"{", "\"", "id", "\"", ":", "\"", "abc", "\"", "}">>,
             readable |-> TRUE]],
   [kind |-> "response",
    res |-> [status |-> 404, contentType |-> Str(<<"text/plain">>),
             body |-> <<"not", " ", "found">>, readable |-> TRUE]],
   [kind |-> "response",
    res |-> [status |-> 500, contentType |-> Null, body |-> <<>>,
             readable |-> FALSE]]}

\* the transport calls a handler whatever the other slots are doing
DispatchAny(i) ==
  \E tool \in OverlapTools : \E args \in ValidArgs(tool) : Invoke(i, tool, args)

RespondAny(i) == \E outcome \in OverlapOutcomes : Settle(i, outcome)

NextOverlap == \E i \in Slots : DispatchAny(i) \/ RespondAny(i) \/ Release(i)

SpecOverlap == Init /\ [][NextOverlap]_vars

\* The slots whose requests the remote service answers, with a response or
\* with a transport failure, sooner or later.  The first slot is left out:
\* the remote may keep its request open for ever.
Answered == {i \in Slots : i > 1}

\* fetch has no signal and no timer here, so a suspended handler runs on only
\* when its fetch settles; when it does, the event loop runs the handler on.
SpecAnswered ==
  Init /\ [][NextOverlap]_vars /\ \A i \in Answered : WF_vars(RespondAny(i))

(***************************************************************************)
(* Properties                                                              *)
(***************************************************************************)
\* the shape { content: [{ type: "text", text }], isError? }
IsToolEnvelope(env) ==
  /\ "content" \in DOMAIN env
  /\ DOMAIN env \subseteq {"content", "isError"}
  /\ Len(env.content) = 1
  /\ env.content[1].type = "text"

\* the tool and arguments slot i was invoked with
ToolOf(i) == invocation[i][1].tool
ArgsOf(i) == invocation[i][1].args

\* the tools that take their payload as JSON text, and the parameter that holds it
TextParameter(tool) ==
  CASE tool = "apply_device_config" -> <<"config">>
    [] tool = "create_room_note" -> <<"content">>
    [] OTHER -> <<>>

\* slot i was invoked with a JSON-text argument that is not valid JSON
ArgumentFails(i) ==
  /\ Invoked(i)
  /\ TextParameter(ToolOf(i)) # <<>>
  /\ ~JSONParse(Prop(ArgsOf(i), TextParameter(ToolOf(i))[1]).s).ok

RECURSIVE Finite(_)
\* v with every number that is not finite replaced by null
Finite(v) ==
  CASE v.t = "infinity" -> Null
    [] v.t = "array" -> Arr([k \in 1..Len(v.a) |-> Finite(v.a[k])])
    [] v.t = "object" ->
         Obj([k \in 1..Len(v.o) |-> <<v.o[k][1], Finite(v.o[k][2])>>])
    [] OTHER -> v

(* C1: every handler that has been called ends with exactly one           *)
(* ToolEnvelope, whatever the client call's outcome: while it waits for    *)
(* fetch it has returned nothing, whatever fetch settles with ends it, and *)
(* once it has ended it has returned one envelope and thrown nothing out.  *)
C1_OneEnvelope ==
  \A i \in Slots :
    /\ escaped[i] = <<>>
    /\ pc[i] # "rejected"
    /\ Len(envelopes[i]) <= 1
    /\ \A k \in 1..Len(envelopes[i]) : IsToolEnvelope(envelopes[i][k])
    /\ (Invoked(i) /\ pc[i] = "awaiting") =>
         (envelopes[i] = <<>> /\ settled[i] = <<>>)
    /\ (Invoked(i) /\ pc[i] # "awaiting") => Len(envelopes[i]) = 1
    /\ settled[i] # <<>> => Ended(i)

\* a declared-JSON response body failed to parse, and one envelope came back
C1_Witness ==
  \E i \in Slots :
    /\ pc[i] = "returned"
    /\ requested[i] # <<>>
    /\ thrown[i] = <<SyntaxError>>
    /\ Len(envelopes[i]) = 1

\* the envelope of slot i is marked as an error exactly when an error was thrown
C2_Marked(i) ==
  LET env == envelopes[i][1] IN
  /\ ("isError" \in DOMAIN env) <=> (thrown[i] # <<>>)
  /\ thrown[i] # <<>> =>
       /\ env.isError = TRUE
       /\ Len(thrown[i]) = 1
       /\ Contains(TextOf(env), thrown[i][1].message)
  /\ thrown[i] = <<>> =>
       /\ Len(results[i]) = 1
       /\ TextOf(env) = JSONStringify(results[i][1], 2)

(* C2 as stated: the envelope is marked isError iff an error was thrown;   *)
(* on success its text is the pretty-printed JSON of the decoded result    *)
(* and parsing the text gives back that result; on an error its text       *)
(* contains the error's message.                                           *)
C2_Original ==
  \A i \in Slots :
    Ended(i) =>
      /\ C2_Marked(i)
      /\ thrown[i] = <<>> =>
           JSONParse(TextOf(envelopes[i][1])) = [ok |-> TRUE, val |-> results[i][1]]

(* C2 amended: as C2, except that parsing the success text gives back the  *)
(* decoded result with every number that is not finite (a literal such as  *)
(* 1e999, which decodes to Infinity) replaced by null.                     *)
C2_Envelope ==
  \A i \in Slots :
    Ended(i) =>
      /\ C2_Marked(i)
      /\ thrown[i] = <<>> =>
           JSONParse(TextOf(envelopes[i][1]))
             = [ok |-> TRUE, val |-> Finite(results[i][1])]

\* status 200, Content-Type application/json, body {"id":"abc"}: a success envelope
C2_Witness ==
  \E i \in Slots :
    /\ pc[i] = "returned"
    /\ thrown[i] = <<>>
    /\ results[i] = << Obj(<< <<<<"id">>, Str(<<"abc">>)>> >>) >>
    /\ "isError" \notin DOMAIN envelopes[i][1]

\* what C3 says of slot i apart from the number of client operations called
C3_NoRetry(i) ==
  /\ Len(Sent(i)) <= Len(clientCalls[i])
  /\ Len(Sent(i)) <= 1
  /\ Len(thrown[i]) <= 1
  /\ thrown[i] # <<>> =>
       /\ Ended(i)
       /\ Len(envelopes[i]) = 1
       /\ "isError" \in DOMAIN envelopes[i][1]

(* C3 as stated: an invocation calls exactly one client operation, which   *)
(* issues at most one HTTP request; after a failure no second request is   *)
(* issued and the failure is reported exactly once.                        *)
C3_Original ==
  \A i \in Slots :
    Invoked(i) => (Len(clientCalls[i]) = 1 /\ C3_NoRetry(i))

(* C3 amended: an invocation calls at most one client operation: exactly   *)
(* one, except none when its JSON-text argument fails to parse; that       *)
(* operation issues at most one HTTP request; after a failure no second    *)
(* request is issued and the failure is reported exactly once.             *)
C3_OneRequest ==
  \A i \in Slots :
    Invoked(i) =>
      /\ Len(clientCalls[i]) = (IF ArgumentFails(i) THEN 0 ELSE 1)
      /\ C3_NoRetry(i)

\* a request was issued, failed, and the invocation ended with that one request
C3_Witness ==
  \E i \in Slots :
    /\ Ended(i)
    /\ Len(Sent(i)) = 1
    /\ Len(thrown[i]) = 1
    /\ settled[i] # <<>>

(* C4: when the JSON text given to apply_device_config (config) or         *)
(* create_room_note (content) is not valid JSON, the invocation returns an *)
(* error envelope whose text reports the parse failure, the client         *)
(* operation is never called and no HTTP request is issued.                *)
C4_ParseFailure ==
  \A i \in Slots :
    ArgumentFails(i) =>
      /\ pc[i] = "returned"
      /\ Len(envelopes[i]) = 1
      /\ "isError" \in DOMAIN envelopes[i][1]
      /\ envelopes[i][1].isError = TRUE
      /\ Contains(TextOf(envelopes[i][1]), SyntaxError.message)
      /\ clientCalls[i] = <<>>
      /\ Sent(i) = <<>>

\* apply_device_config was invoked with config "{not valid json"
C4_Witness ==
  \E i \in Slots :
    /\ Invoked(i)
    /\ ToolOf(i) = "apply_device_config"
    /\ Prop(ArgsOf(i), "config") = Str(<<"{", "not", " ", "valid", " ", "json">>)
    /\ pc[i] = "returned"

\* slot i's fetch settled with a response
Responded(i) == settled[i] # <<>> /\ settled[i][1].kind = "response"

\* text ends with tail
EndsWith(text, tail) ==
  /\ Len(tail) <= Len(text)
  /\ SubSeq(text, Len(text) - Len(tail) + 1, Len(text)) = tail

(* C5: when the response has a non-success status, request raises exactly  *)
(* one error and returns no value; the message contains the method, the    *)
(* path, the status code and the body text; when reading the body fails    *)
(* the body text is the empty string and the same error is raised, not the *)
(* read failure.                                                           *)
C5_StatusError ==
  \A i \in Slots :
    (Responded(i) /\ settled[i][1].res.status \notin 200..299) =>
      LET res == settled[i][1].res
          req == requested[i][1]
          text == IF res.readable THEN res.body ELSE <<>>
      IN /\ Len(thrown[i]) = 1
         /\ results[i] = <<>>
         /\ thrown[i][1].name = "Error"
         /\ thrown[i][1] # BodyFailed
         /\ Contains(thrown[i][1].message, <<req.fetch.options.method>>)
         /\ Contains(thrown[i][1].message, req.path)
         /\ Contains(thrown[i][1].message, <<ToString(res.status)>>)
         /\ EndsWith(thrown[i][1].message, <<": ">> \o text)

\* status 404 with body "not found": the message holds 404 and not found
C5_Witness ==
  \E i \in Slots :
    /\ Responded(i)
    /\ settled[i][1].res.status = 404
    /\ settled[i][1].res.body = <<"not", " ", "found">>
    /\ Len(thrown[i]) = 1
    /\ Contains(thrown[i][1].message, <<"404">>)
    /\ Contains(thrown[i][1].message, <<"not", " ", "found">>)

\* the content-type header names the media type application/json
DeclaresJson(contentType) ==
  /\ contentType # Null
  /\ contentType.s # <<>>
  /\ contentType.s[1] = "application/json"

(* C6: on a success status the body is decoded by the content-type header: *)
(* declared JSON is parsed and the structured value returned; anything     *)
(* else, a missing header included, returns the raw text; a declared-JSON  *)
(* body that fails to parse makes the call fail with an error that reaches *)
(* the caller, and no value is returned in its place.                      *)
C6_Decoding ==
  \A i \in Slots :
    (Responded(i) /\ settled[i][1].res.status \in 200..299
       /\ settled[i][1].res.readable) =>
      LET res == settled[i][1].res
          parsed == JSONParse(res.body)
      IN /\ (DeclaresJson(res.contentType) /\ parsed.ok) =>
              (results[i] = <<parsed.val>> /\ thrown[i] = <<>>)
         /\ (DeclaresJson(res.contentType) /\ ~parsed.ok) =>
              /\ results[i] = <<>>
              /\ thrown[i] = <<SyntaxError>>
              /\ envelopes[i] = <<error(SyntaxError.message)>>
         /\ ~DeclaresJson(res.contentType) =>
              (results[i] = <<Str(res.body)>> /\ thrown[i] = <<>>)

\* no content-type header: a body that looks like JSON comes back as raw text
C6_Witness ==
  \E i \in Slots :
    /\ Responded(i)
    /\ settled[i][1].res.status = 200
    /\ settled[i][1].res.contentType = Null
    /\ settled[i][1].res.body = <<"{", "\"", "id", "\"", ":", "\"", "abc", "\"", "}">>
    /\ results[i] = <<Str(settled[i][1].res.body)>>

\* where the query string of a URL starts: the place of its "?", 0 when none
QueryStart(u) ==
  IF \E k \in 1..Len(u) : u[k] = "?"
  THEN CHOOSE k \in 1..Len(u) : u[k] = "?" /\ \A j \in 1..(k - 1) : u[j] # "?"
  ELSE 0

\* the key=value pairs of a URL's query string, as <<key, value text>>
QueryPairs(u) ==
  LET q == QueryStart(u) IN
  IF q = 0 THEN {}
  ELSE {<<u[k - 1],
          SubSeq(u, k + 1,
                 (CHOOSE e \in k..Len(u) :
                    /\ \A j \in (k + 1)..e : u[j] # "&"
                    /\ (e = Len(u) \/ u[e + 1] = "&")))>> :
          k \in {j \in (q + 2)..Len(u) : u[j] = "=" /\ u[j - 2] \in {"?", "&"}}}

QueryKeys(u) == {kv[1] : kv \in QueryPairs(u)}

\* the optional parameters of a tool, and those of them slot i was given
OptionalNames(tool) ==
  {inputSchema(tool)[k].name :
     k \in {j \in 1..Len(inputSchema(tool)) : inputSchema(tool)[j].optional}}

Supplied(i) == {n \in OptionalNames(ToolOf(i)) : Prop(ArgsOf(i), n) # Undef}

\* the request payload of slot i decoded, when there is one and it is JSON
Payload(i) ==
  LET o == Sent(i)[1].options IN
  IF "body" \in DOMAIN o THEN JSONParse(o.body) ELSE Fail

\* parameter n is in the request of slot i as a query key, and with value v
InQuery(i, n) == n \in QueryKeys(Sent(i)[1].url)
InQueryAs(i, n, v) == <<n, FormEncode(String(v))>> \in QueryPairs(Sent(i)[1].url)

\* parameter n is in the request payload of slot i with a defined value
InBody(i, n) ==
  /\ Payload(i).ok
  /\ Payload(i).val.t = "object"
  /\ Prop(Payload(i).val, n) # Undef

(* C7: an optional parameter the caller did not supply is in the request   *)
(* neither as a query-string key nor as a body key; one that was supplied  *)
(* is there, as a query key or a body key, with its value; independently   *)
(* for each parameter and for every subset supplied.                       *)
C7_OptionalOmitted ==
  \A i \in Slots :
    (Invoked(i) /\ Sent(i) # <<>>) =>
      \A n \in OptionalNames(ToolOf(i)) :
        /\ n \notin Supplied(i) => (~InQuery(i, n) /\ ~InBody(i, n))
        /\ n \in Supplied(i) =>
             \/ InQuery(i, n) /\ InQueryAs(i, n, Prop(ArgsOf(i), n))
             \/ InBody(i, n) /\ Prop(Payload(i).val, n) = Prop(ArgsOf(i), n)

\* list_devices with regionId 0 and no locationId: the path is /endpoints?regionId=0
C7_Witness ==
  \E i \in Slots :
    /\ Invoked(i)
    /\ ToolOf(i) = "list_devices"
    /\ ArgsOf(i) = Obj(<< <<<<"regionId">>, Num(0)>> >>)
    /\ Sent(i) # <<>>
    /\ requested[i][1].path = <<"/endpoints", "?", "regionId", "=", "0">>

\* the tools whose client operation takes optional filter parameters
FilterTools ==
  {"list_devices", "get_all_device_sensors", "get_audit_logs", "generate_bug_report"}

\* the query keys an operation always writes
RequiredKeys(tool) == IF tool = "get_audit_logs" THEN {"from", "to"} ELSE {}

\* every key of the query string of slot i is written as key=value of its argument
C8_KeyValue(i) ==
  \A kv \in QueryPairs(Sent(i)[1].url) :
    kv[2] = FormEncode(String(Prop(ArgsOf(i), kv[1])))

(* C8 as stated: for listEndpoints, getBulkSensorData, getAuditLogs and    *)
(* generateBugReport, supplying no optional parameter gives a request with *)
(* no query string, and supplying a subset gives a query string holding    *)
(* exactly that subset, each as key=value.                                 *)
C8_Original ==
  \A i \in Slots :
    (Invoked(i) /\ Sent(i) # <<>> /\ ToolOf(i) \in FilterTools) =>
      /\ Supplied(i) = {} => QueryStart(Sent(i)[1].url) = 0
      /\ QueryKeys(Sent(i)[1].url) = Supplied(i)
      /\ C8_KeyValue(i)

(* C8 amended: for listEndpoints, getBulkSensorData and generateBugReport, *)
(* supplying no optional parameter gives no query string and a subset      *)
(* gives exactly that subset; getAuditLogs always writes a query string,   *)
(* which holds the required from and to and exactly the supplied subset of *)
(* pageToken and pageSize; each is written as key=value, form-urlencoded.  *)
C8_QueryString ==
  \A i \in Slots :
    (Invoked(i) /\ Sent(i) # <<>> /\ ToolOf(i) \in FilterTools) =>
      LET keys == Supplied(i) \cup RequiredKeys(ToolOf(i)) IN
      /\ (keys = {}) <=> (QueryStart(Sent(i)[1].url) = 0)
      /\ QueryKeys(Sent(i)[1].url) = keys
      /\ C8_KeyValue(i)
      /\ Cardinality({k \in 1..Len(Sent(i)[1].url) : Sent(i)[1].url[k] = "="})
           = Cardinality(keys)

\* get_audit_logs with no optional parameter: the query string holds from and to
C8_Witness ==
  \E i \in Slots :
    /\ Invoked(i)
    /\ ToolOf(i) = "get_audit_logs"
    /\ Supplied(i) = {}
    /\ Sent(i) # <<>>
    /\ QueryKeys(Sent(i)[1].url) = {"from", "to"}

(* C9: every request the client issues, bodyless GET and DELETE requests   *)
(* included, carries exactly the headers Authorization = "Bearer " + the   *)
(* apiKey given at construction, Content-Type = application/json and       *)
(* Accept = application/json; the key the client holds stays the one it    *)
(* was constructed with.                                                   *)
C9_Headers ==
  /\ pulse.apiKey = clientConfig.apiKey
  /\ \A i \in Slots :
       \A k \in 1..Len(Sent(i)) :
         LET h == Sent(i)[k].options.headers IN
         /\ DOMAIN h = {"Authorization", "Content-Type", "Accept"}
         /\ h["Authorization"] = <<"Bearer ">> \o clientConfig.apiKey
         /\ h["Content-Type"] = <<"application/json">>
         /\ h["Accept"] = <<"application/json">>

\* a DELETE request, which has no payload, was sent with a Content-Type header
C9_Witness ==
  \E i \in Slots :
    /\ Sent(i) # <<>>
    /\ Sent(i)[1].options.method = "DELETE"
    /\ "body" \notin DOMAIN Sent(i)[1].options
    /\ "Content-Type" \in DOMAIN Sent(i)[1].options.headers

\* the client operations that pass a body to request
BodyOperations ==
  {"applyEndpointConfig", "createRoom", "updateRoom", "createLocation",
   "updateLocation", "createRegion", "updateRegion", "generateBugReport",
   "createRoomNote", "createUser", "updateUser"}

\* the argument structure the caller gave as the body of slot i's request
GivenBody(i) ==
  LET tool == ToolOf(i)
      args == ArgsOf(i)
  IN CASE tool \in {"create_room", "create_location", "create_region", "create_user"} ->
            args
       [] tool \in {"update_room", "update_location", "update_region", "update_user"} ->
            Obj(SelectSeq(args.o, LAMBDA kv : kv[1] # <<"id">>))
       [] tool = "generate_bug_report" -> Prop(args, "ids")
       [] tool = "apply_device_config" -> JSONParse(Prop(args, "config").s).val
       [] tool = "create_room_note" -> JSONParse(Prop(args, "content").s).val

\* the request of slot i carries a payload exactly when its operation passes a body
C10_PayloadIffBody(i) ==
  ("body" \in DOMAIN Sent(i)[1].options) <=> (clientCalls[i][1] \in BodyOperations)

(* C10 as stated: a request carries a payload iff the client operation     *)
(* supplied a body; the payload is the JSON serialization of the body and  *)
(* decoding it gives back the original argument structure; the GET and     *)
(* DELETE operations, rebootEndpoint and regenerateRoomDec send none.      *)
C10_Original ==
  \A i \in Slots :
    (Invoked(i) /\ Sent(i) # <<>>) =>
      /\ C10_PayloadIffBody(i)
      /\ "body" \in DOMAIN Sent(i)[1].options =>
           Payload(i) = [ok |-> TRUE, val |-> GivenBody(i)]

(* C10 amended: as C10, except that decoding the payload gives back the    *)
(* original argument structure with every number that is not finite (a     *)
(* literal such as 1e999 in the config or content text, which parses to    *)
(* Infinity) replaced by null.                                             *)
C10_Payload ==
  \A i \in Slots :
    (Invoked(i) /\ Sent(i) # <<>>) =>
      /\ C10_PayloadIffBody(i)
      /\ "body" \in DOMAIN Sent(i)[1].options =>
           Payload(i) = [ok |-> TRUE, val |-> Finite(GivenBody(i))]
      /\ Sent(i)[1].options.method \in {"GET", "DELETE"} =>
           "body" \notin DOMAIN Sent(i)[1].options
      /\ clientCalls[i][1] \in {"rebootEndpoint", "regenerateRoomDec"} =>
           "body" \notin DOMAIN Sent(i)[1].options

\* create_user with role owner and no regionIds: the payload holds email and role
C10_Witness ==
  \E i \in Slots :
    /\ Invoked(i)
    /\ ToolOf(i) = "create_user"
    /\ Sent(i) # <<>>
    /\ Payload(i).ok
    /\ Prop(Payload(i).val, "role") = Str(<<"owner">>)
    /\ Prop(Payload(i).val, "regionIds") = Undef

\* C11: a client cannot exist for a configuration whose apiKey or orgId is
\* missing or empty: its construction is rejected with an error, so no such
\* client is there to send a request; and no request is sent by construction
\* itself.
C11_Original ==
  /\ Missing(clientConfig) =>
       /\ constructor(clientConfig).threw
       /\ \A i \in Slots : Sent(i) = <<>>
  /\ (\A i \in Slots : ~Invoked(i)) => \A i \in Slots : Sent(i) = <<>>

\* the call and the outcome an ended invocation of slot i was about
OwnCall(i) == requested[i][1]
OwnOutcome(i) == settled[i][1]

\* C12: invocations in flight together do not touch each other.  The requests
\* of a slot are those its handler issues for its own arguments and the
\* client's configuration, whatever the other slots hold, so two slots with
\* the same invocation hold the same requests, each with the bearer token of
\* the configuration; and the envelope of a slot is the one its handler builds from
\* the outcome of its own request: a failure names the slot's own method,
\* path and status, a success is the text of the slot's own response body.
C12_Isolation ==
  /\ \A i \in Slots : Invoked(i) =>
       requested[i] = Handler(ToolOf(i), ArgsOf(i)).fetches
  /\ \A i, j \in Slots :
       (Invoked(i) /\ Invoked(j) /\ invocation[i] = invocation[j]) =>
         Sent(i) = Sent(j)
  /\ \A i \in Slots : \A k \in 1..Len(requested[i]) :
       requested[i][k].fetch.options.headers["Authorization"]
         = <<"Bearer ">> \o clientConfig.apiKey
  /\ \A i \in Slots : settled[i] # <<>> =>
       /\ Len(settled[i]) = 1 /\ Len(requested[i]) = 1 /\ Len(envelopes[i]) = 1
       /\ envelopes[i] = Continue(OwnCall(i), OwnOutcome(i)).returned
       /\ OwnOutcome(i).kind = "reject" =>
            envelopes[i][1] = error(FetchFailed.message)
       /\ (Responded(i) /\ ~Ok(OwnOutcome(i).res.status)) =>
            /\ "isError" \in DOMAIN envelopes[i][1]
            /\ envelopes[i][1].isError = TRUE
            /\ Contains(TextOf(envelopes[i][1]),
                         <<OwnCall(i).method, " ">> \o OwnCall(i).path
                           \o <<" returned ", ToString(OwnOutcome(i).res.status)>>)
       /\ (Responded(i) /\ Ok(OwnOutcome(i).res.status)
             /\ OwnOutcome(i).res.readable) =>
            envelopes[i][1]
              = json(JSONParse(OwnOutcome(i).res.body).val)

\* two invocations overlapped, one with a payload and one without, and each
\* has returned after a different response: 404 to the first, 200 to the second
C12_Witness ==
  \E i, j \in Slots :
    /\ i # j
    /\ settled[i] # <<>> /\ settled[j] # <<>>
    /\ pc[i] = "returned" /\ pc[j] = "returned"
    /\ ToolOf(i) = "apply_device_config" /\ ToolOf(j) = "reboot_device"
    /\ "body" \in DOMAIN OwnCall(i).fetch.options
    /\ "body" \notin DOMAIN OwnCall(j).fetch.options
    /\ OwnOutcome(i).kind = "response" /\ OwnOutcome(i).res.status = 404
    /\ OwnOutcome(j).kind = "response" /\ OwnOutcome(j).res.status = 200

\* C13: an invocation that has issued its request completes exactly when the
\* outcome of that request arrives.  It has returned only if an outcome has
\* arrived; it leaves its await only in a step in which an outcome arrives,
\* and then it returns one envelope (no timeout, no cancellation); when the
\* remote answers a slot's requests, with a response of any status or with a
\* transport failure, every invocation awaiting in that slot eventually
\* returns, also in the behaviours where the slot that is never answered
\* stays suspended for ever.
C13_Completion ==
  /\ [](\A i \in Slots :
         (Ended(i) /\ requested[i] # <<>>) => settled[i] # <<>>)
  /\ [][\A i \in Slots :
         (pc[i] = "awaiting" /\ pc'[i] # "awaiting") =>
           /\ settled'[i] # settled[i]
           /\ pc'[i] = "returned"
           /\ Len(envelopes'[i]) = 1]_vars
  /\ \A i \in Answered :
       (pc[i] = "awaiting") ~> (pc[i] = "returned" /\ Len(envelopes[i]) = 1)

\* a slot the remote does not answer is suspended with no outcome, and
\* another slot, invoked too, has returned after the outcome of its request
C13_Witness ==
  \E i \in Slots \ Answered : \E j \in Answered :
    /\ pc[i] = "awaiting" /\ requested[i] # <<>> /\ settled[i] = <<>>
    /\ envelopes[i] = <<>>
    /\ pc[j] = "returned" /\ settled[j] # <<>> /\ Len(envelopes[j]) = 1

\* the registered tools by the first word of their name, and the four tools
\* that the claim names one by one
ListTools ==
  {"list_devices", "list_rooms", "list_locations", "list_regions", "list_users",
   "list_profiles", "list_room_notes", "list_all_room_notes"}
GetTools ==
  {"get_device", "get_device_settings", "get_device_sensors",
   "get_all_device_sensors", "get_room_sensors", "get_all_room_sensors",
   "get_room", "get_user", "get_audit_logs", "get_room_note"}
DeleteTools ==
  {"delete_device", "delete_room", "delete_location", "delete_region",
   "delete_user", "delete_room_note"}
UpdateTools == {"update_room", "update_location", "update_region", "update_user"}
CreateTools ==
  {"create_room", "create_location", "create_region", "create_user",
   "create_room_note"}
ActionTools ==
  {"apply_device_config", "reboot_device", "regenerate_room_dec",
   "generate_bug_report"}
ReadOnlyTools == ListTools \cup GetTools

\* the method the claim gives a tool
C14_Method(tool) ==
  CASE tool \in ReadOnlyTools -> "GET"
    [] tool \in DeleteTools -> "DELETE"
    [] tool \in UpdateTools -> "PUT"
    [] tool \in CreateTools \cup ActionTools -> "POST"

\* C14: the method of every request is the one its tool's name stands for,
\* whatever the arguments: list_* and get_* tools send only GET, delete_*
\* only DELETE, update_* only PUT, and a POST comes only from a create_*
\* tool, apply_device_config, reboot_device, regenerate_room_dec or
\* generate_bug_report; the method handed to fetch is that same method, and
\* every registered tool falls in exactly one of these groups.
C14_MethodByTool ==
  /\ ToolNames =
       ReadOnlyTools \cup DeleteTools \cup UpdateTools \cup CreateTools
         \cup ActionTools
  /\ Cardinality(ToolNames) =
       Cardinality(ListTools) + Cardinality(GetTools) + Cardinality(DeleteTools)
         + Cardinality(UpdateTools) + Cardinality(CreateTools)
         + Cardinality(ActionTools)
  /\ \A i \in Slots : \A k \in 1..Len(requested[i]) :
       /\ requested[i][k].method = C14_Method(ToolOf(i))
       /\ requested[i][k].fetch.options.method = C14_Method(ToolOf(i))
       /\ ToolOf(i) \in ReadOnlyTools =>
            requested[i][k].fetch.options.method \notin {"POST", "PUT", "DELETE"}
       /\ requested[i][k].fetch.options.method = "POST" =>
            ToolOf(i) \in CreateTools \cup ActionTools

\* get_device_settings has sent its request, a GET, to the path that
\* apply_device_config posts to
C14_Witness ==
  \E i \in Slots :
    /\ Invoked(i)
    /\ ToolOf(i) = "get_device_settings"
    /\ Len(requested[i]) = 1
    /\ requested[i][1].fetch.options.method = "GET"
    /\ requested[i][1].path = applyEndpointConfig(Prop(ArgsOf(i), "id"), Obj(<<>>)).path

====
